---- MODULE Spec2Model ----
(***************************************************************************)
(* Model of the Ansible progress callback plugin                           *)
(* src/ansible/callback_plugins/progress.py (class CallbackModule).        *)
(*                                                                         *)
(* Python strings are TLA+ strings; Len, \o and SubSeq are used on them.   *)
(* The box-drawing and status characters of the source are not ASCII, so   *)
(* each is written as one ASCII stand-in of the same length (one           *)
(* character), none of which occurs in a task name of the model:           *)
(*     U+251C  "+"      U+2500  "="      U+2502  "|"      U+2514  "%"      *)
(*     U+2713  "#"  (check mark)         U+2717  "!"  (ballot x)           *)
(***************************************************************************)
EXTENDS Integers, Sequences, FiniteSets, TLC

VARIABLES
    current_task,     \* self.current_task: None or a string
    current_play,     \* self.current_play: None or a string
    task_categories,  \* self.task_categories: ordered category -> patterns
    stdout_buf,       \* text written to sys.stdout and not yet flushed
    tty,              \* text that has reached the terminal
    last,             \* history: the last event, what its handler wrote
    prev,             \* history: the value of last before the last event
    started,          \* history: name carried by the latest task-start
    nevents,          \* history: number of events delivered
    fn_arg,           \* argument of a direct call of a helper method
    fn_ret            \* what the direct call returned

vars == <<current_task, current_play, task_categories, stdout_buf, tty,
          last, prev, started, nevents, fn_arg, fn_ret>>

(***************************************************************************)
(* Bounds                                                                  *)
(***************************************************************************)
MaxEvents == 4

(***************************************************************************)
(* Optional values: Python's None, and dict.get with a default             *)
(***************************************************************************)
None == [some |-> FALSE, val |-> ""]
Some(v) == [some |-> TRUE, val |-> v]
NoBool == [some |-> FALSE, val |-> FALSE]

DictGet(field, default) == IF field.some THEN field.val ELSE default

\* Truth value of an optional string in a Python condition
Truthy(s) == s.some /\ s.val # ""

(***************************************************************************)
(* String primitives, as Python computes them                              *)
(***************************************************************************)
UpperChars == "ABCDEFGHIJKLMNOPQRSTUVWXYZ"
LowerChars == "abcdefghijklmnopqrstuvwxyz"

\* the lower-case letter of each upper-case letter
ToLower ==
    [c \in {SubSeq(UpperChars, i, i) : i \in 1..Len(UpperChars)} |->
        LET i == CHOOSE k \in 1..Len(UpperChars) : SubSeq(UpperChars, k, k) = c
        IN  SubSeq(LowerChars, i, i)]

LowerCh(c) == IF c \in DOMAIN ToLower THEN ToLower[c] ELSE c

RECURSIVE LowerFrom(_, _)
LowerFrom(s, i) ==
    IF i > Len(s) THEN ""
    ELSE LowerCh(SubSeq(s, i, i)) \o LowerFrom(s, i + 1)

\* s.lower()
Lower(s) == LowerFrom(s, 1)

\* needle in hay
Contains(needle, hay) ==
    \E i \in 1..(Len(hay) - Len(needle) + 1) :
        SubSeq(hay, i, i + Len(needle) - 1) = needle

StartsWith(s, p) == Len(s) >= Len(p) /\ SubSeq(s, 1, Len(p)) = p

EndsWith(s, p) == Len(s) >= Len(p) /\ SubSeq(s, Len(s) - Len(p) + 1, Len(s)) = p

\* c * n: the empty string when n <= 0
RECURSIVE Repeat(_, _)
Repeat(c, n) == IF n <= 0 THEN "" ELSE c \o Repeat(c, n - 1)

(***************************************************************************)
(* Task names: those the engine delivers, and those the helper methods are *)
(* called with directly, put together from parts                           *)
(***************************************************************************)
GatheringFacts == "Gathering Facts"

TaskNames ==
    { "",
      GatheringFacts,
      "Change default shell",
      "Create the workspace directory for the deploy user",
      "Configure the firewall rules for the network interfaces",
      "Set hostname",
      "Install base system packages and global npm packages",
      "Install global npm packages",
      "install nvm and fix all permissions",
      "Install Set hostname",
      "Generate .zshrc with the shell configuration for developers" }

NameHeads ==
    { "", "Install ", "Set ", "Update ", "Enable ", "Generate ", "Download ",
      "Change ", "install ", "Install Set ", "Reinstall " }

NameCores ==
    { "x", "NVM", "nvm", "hostname", "global npm packages", "Global NPM packages",
      "base system packages", "additional APT packages", "default shell",
      "Change.*shell", ".zshrc", "PERMISSIONS" }

NameTails ==
    { "", " and base system packages", " with global npm packages",
      " and set hostname" }

FnNames == { h \o c \o t : h \in NameHeads, c \in NameCores, t \in NameTails }

(***************************************************************************)
(* The category table built by __init__                                    *)
(***************************************************************************)
InitialTaskCategories ==
    << [category |-> "System Configuration",
        patterns |-> << "Set hostname",
                        "Update /etc/hosts",
                        "Generate en_US.UTF-8 locale",
                        "Set system locale",
                        "Set system timezone",
                        "Update apt cache",
                        "Install locale packages",
                        "Install base system packages" >>],
       [category |-> "Development Tools",
        patterns |-> << "Install NVM",
                        "Install Node.js",
                        "Update npm",
                        "Enable corepack",
                        "Install pnpm",
                        "Install global npm packages",
                        "Install additional APT packages",
                        "Install Rust",
                        "Install cargo packages",
                        "Install pyenv" >>],
       [category |-> "Final Setup",
        patterns |-> << "Change.*shell",
                        "Generate .zshrc",
                        "shell configuration",
                        "permissions" >>] >>

(***************************************************************************)
(* _categorize_task                                                        *)
(***************************************************************************)
\* a variant that reads ".*" inside a pattern as "any text"
PatternMatchesWildcard(pattern, task_name) ==
    IF \E k \in 1..(Len(pattern) - 1) : SubSeq(pattern, k, k + 1) = ".*"
    THEN LET k == CHOOSE k \in 1..(Len(pattern) - 1) : SubSeq(pattern, k, k + 1) = ".*"
             head == Lower(SubSeq(pattern, 1, k - 1))
             tail == Lower(SubSeq(pattern, k + 2, Len(pattern)))
             name == Lower(task_name)
         IN  \E i \in 1..(Len(name) + 1) :
                /\ Contains(head, SubSeq(name, 1, i - 1))
                /\ Contains(tail, SubSeq(name, i, Len(name)))
    ELSE Contains(Lower(pattern), Lower(task_name))

\* a variant that compares without lowering either side
PatternMatchesCaseSensitive(pattern, task_name) ==
    \/ Contains(pattern, task_name)
    \/ /\ StartsWith(pattern, ".*")
       /\ EndsWith(pattern, ".*")
       /\ Contains(SubSeq(pattern, 3, Len(pattern) - 2), task_name)

PatternMatches(pattern, task_name) ==
    \/ Contains(Lower(pattern), Lower(task_name))
    \/ /\ StartsWith(pattern, ".*")
       /\ EndsWith(pattern, ".*")
       /\ Contains(Lower(SubSeq(pattern, 3, Len(pattern) - 2)), Lower(task_name))

\* the scan from pattern j of category i of the table on, returning at the
\* first match
RECURSIVE CategorizeFrom(_, _, _, _)
CategorizeFrom(table, i, j, task_name) ==
    IF i > Len(table) THEN None
    ELSE IF j > Len(table[i].patterns)
         THEN CategorizeFrom(table, i + 1, 1, task_name)
         ELSE IF PatternMatches(table[i].patterns[j], task_name)
              THEN Some(table[i].category)
              ELSE CategorizeFrom(table, i, j + 1, task_name)

\* a variant whose scan does not return at the first match: the last one wins
RECURSIVE CategorizeKeepLast(_, _, _, _)
CategorizeKeepLast(table, i, j, task_name) ==
    IF i > Len(table) THEN None
    ELSE IF j > Len(table[i].patterns)
         THEN CategorizeKeepLast(table, i + 1, 1, task_name)
         ELSE LET later == CategorizeKeepLast(table, i, j + 1, task_name)
              IN  IF later.some THEN later
                  ELSE IF PatternMatches(table[i].patterns[j], task_name)
                       THEN Some(table[i].category)
                       ELSE None

categorize_task_last_match(task_name) ==
    CategorizeKeepLast(task_categories, 1, 1, task_name)

\* the scan of the table built by __init__, worked out once for each name
InitialCategory ==
    [n \in TaskNames \cup FnNames |-> CategorizeFrom(InitialTaskCategories, 1, 1, n)]

categorize_task(task_name) ==
    IF task_categories = InitialTaskCategories /\ task_name \in DOMAIN InitialCategory
    THEN InitialCategory[task_name]
    ELSE CategorizeFrom(task_categories, 1, 1, task_name)

(***************************************************************************)
(* _simplify_task_name                                                     *)
(***************************************************************************)
\* a variant of the table whose first prefix reaches into a trigger
simplifications_swallowing ==
    << [prefix |-> "Install base ", replacement |-> ""],
       [prefix |-> "Install ",  replacement |-> ""],
       [prefix |-> "Set ",      replacement |-> ""],
       [prefix |-> "Update ",   replacement |-> ""],
       [prefix |-> "Enable ",   replacement |-> ""],
       [prefix |-> "Generate ", replacement |-> ""],
       [prefix |-> "Download ", replacement |-> ""],
       [prefix |-> "Change ",   replacement |-> ""] >>

simplifications ==
    << [prefix |-> "Install ",  replacement |-> ""],
       [prefix |-> "Set ",      replacement |-> ""],
       [prefix |-> "Update ",   replacement |-> ""],
       [prefix |-> "Enable ",   replacement |-> ""],
       [prefix |-> "Generate ", replacement |-> ""],
       [prefix |-> "Download ", replacement |-> ""],
       [prefix |-> "Change ",   replacement |-> ""] >>

\* the for loop with its break: the first prefix that fits is cut off
RECURSIVE RemovePrefix(_, _)
RemovePrefix(simple_name, i) ==
    IF i > Len(simplifications) THEN simple_name
    ELSE IF StartsWith(simple_name, simplifications[i].prefix)
         THEN SubSeq(simple_name, Len(simplifications[i].prefix) + 1, Len(simple_name))
         ELSE RemovePrefix(simple_name, i + 1)

\* a variant of the loop without its break: every prefix met in turn is cut off
RECURSIVE RemovePrefixes(_, _)
RemovePrefixes(simple_name, i) ==
    IF i > Len(simplifications) THEN simple_name
    ELSE IF StartsWith(simple_name, simplifications[i].prefix)
         THEN RemovePrefixes(
                  SubSeq(simple_name, Len(simplifications[i].prefix) + 1, Len(simple_name)),
                  i + 1)
         ELSE RemovePrefixes(simple_name, i + 1)

\* a variant of the chain that tests the global npm trigger first
SpecificSimplificationGlobalFirst(simple_name) ==
    IF Contains("global npm packages", simple_name) THEN "Global packages (5)"
    ELSE IF Contains("base system packages", simple_name) THEN "Base packages (25)"
    ELSE IF Contains("additional APT packages", simple_name) THEN "Additional packages"
    ELSE simple_name

\* the if / elif / elif chain on the name left by the loop
SpecificSimplification(simple_name) ==
    IF Contains("base system packages", simple_name) THEN "Base packages (25)"
    ELSE IF Contains("global npm packages", simple_name) THEN "Global packages (5)"
    ELSE IF Contains("additional APT packages", simple_name) THEN "Additional packages"
    ELSE simple_name

simplify_task_name_no_break(task_name) ==
    SpecificSimplification(RemovePrefixes(task_name, 1))

simplify_task_name(task_name) == SpecificSimplification(RemovePrefix(task_name, 1))

(***************************************************************************)
(* The text the handlers write                                             *)
(***************************************************************************)
TopWidth == 50
CondensedWidth == 35

TopPrefix == "   += "
CondensedPrefix == "   |  += "
ErrorPrefix == "   |  %= "
OkGlyph == "#"
FailedGlyph == "!"

\* f"   += {task} "
Placeholder(task_name) == TopPrefix \o task_name \o " "

\* a variant of the condensed line filled to the top-level width
CondensedOkLineTopWidth(simple_name) ==
    "\r" \o CondensedPrefix \o simple_name \o " "
         \o Repeat(".", TopWidth - Len(simple_name)) \o " " \o OkGlyph \o "\n"

\* a variant of the condensed line under the top-level prefix
CondensedOkLineTopPrefix(simple_name) ==
    "\r" \o TopPrefix \o simple_name \o " "
         \o Repeat(".", CondensedWidth - Len(simple_name)) \o " " \o OkGlyph \o "\n"

\* f"\r   |  += {simple_name} {'.' * (35 - len(simple_name))} #\n"
CondensedOkLine(simple_name) ==
    "\r" \o CondensedPrefix \o simple_name \o " "
         \o Repeat(".", CondensedWidth - Len(simple_name)) \o " " \o OkGlyph \o "\n"

\* a variant that cuts a long name so that the line keeps its width
TopOkLineCutName(task_name) ==
    LET keep == IF Len(task_name) > TopWidth - 3 THEN TopWidth - 3 ELSE Len(task_name)
        shown == SubSeq(task_name, 1, keep)
    IN  "\r" \o TopPrefix \o shown \o " "
             \o Repeat(".", TopWidth - Len(shown)) \o " " \o OkGlyph \o "\n"

\* a variant of the completion line without its carriage return
TopOkLineNoReturn(task_name) ==
    TopPrefix \o task_name \o " "
         \o Repeat(".", TopWidth - Len(task_name)) \o " " \o OkGlyph \o "\n"

\* f"\r   += {task_name} {'.' * (50 - len(task_name))} #\n"
TopOkLine(task_name) ==
    "\r" \o TopPrefix \o task_name \o " "
         \o Repeat(".", TopWidth - Len(task_name)) \o " " \o OkGlyph \o "\n"

\* f"\r   += {task} {'.' * (50 - len(task))} !\n"
FailedLine(task_name) ==
    "\r" \o TopPrefix \o task_name \o " "
         \o Repeat(".", TopWidth - Len(task_name)) \o " " \o FailedGlyph \o "\n"

\* a variant that reads msg without a default: a missing message prints as None
ErrorLineNoDefault(result) ==
    ErrorPrefix \o "Error: " \o DictGet(result.msg, "None") \o "\n"

\* f"   |  %= Error: {result._result.get('msg', 'Unknown error')}\n"
ErrorLine(result) ==
    ErrorPrefix \o "Error: " \o DictGet(result.msg, "Unknown error") \o "\n"

(***************************************************************************)
(* The events the engine delivers                                          *)
(***************************************************************************)
PlayNames == { "Provision VM" }

NoResult == [changed |-> NoBool, msg |-> None]

OkResults ==
    { [changed |-> c, msg |-> None] : c \in {NoBool, Some(TRUE), Some(FALSE)} }

FailedResults ==
    { [changed |-> NoBool, msg |-> m] : m \in {None, Some("E: held packages")} }

Event(kind, name, ignore_errors, result) ==
    [kind |-> kind, name |-> name, ignore_errors |-> ignore_errors, result |-> result]

NoEvent == Event("none", "", FALSE, NoResult)

\* the record of one handled event: what was written, from which state
\* (placeholder: what the latest task-start wrote)
Handled(ev, wrote, category) ==
    [ev |-> ev, wrote |-> wrote, category |-> category,
     tty_before |-> tty, task_before |-> current_task,
     placeholder |-> IF ev.kind = "task_start" THEN wrote ELSE last.placeholder]

NotHandled ==
    [ev |-> NoEvent, wrote |-> "", category |-> None,
     tty_before |-> "", task_before |-> None, placeholder |-> ""]

NotCalled == [fn |-> "none", val |-> None]

(***************************************************************************)
(* __init__                                                                *)
(***************************************************************************)
InitObject ==
    /\ current_task = None
    /\ current_play = None
    /\ task_categories = InitialTaskCategories
    /\ stdout_buf = ""
    /\ tty = ""
    /\ last = NotHandled
    /\ prev = NotHandled
    /\ started = None
    /\ nevents = 0

Init ==
    /\ InitObject
    /\ fn_arg = ""
    /\ fn_ret = NotCalled

\* one more event is delivered and recorded
Deliver(ev, wrote, category) ==
    /\ nevents < MaxEvents
    /\ nevents' = nevents + 1
    /\ prev' = last
    /\ last' = Handled(ev, wrote, category)
    /\ UNCHANGED <<task_categories, fn_arg, fn_ret>>

\* a variant that writes and leaves the text in the buffer
WriteWithoutFlush(text) ==
    /\ stdout_buf' = stdout_buf \o text
    /\ tty' = tty

\* sys.stdout.write(text) ... sys.stdout.flush()
WriteAndFlush(text) ==
    /\ tty' = tty \o stdout_buf \o text
    /\ stdout_buf' = ""

(***************************************************************************)
(* The handlers                                                            *)
(***************************************************************************)
\* a variant that builds an empty category table for each play
v2_playbook_on_play_start_new_table(play) ==
    /\ nevents < MaxEvents
    /\ nevents' = nevents + 1
    /\ prev' = last
    /\ last' = Handled(Event("play_start", play, FALSE, NoResult), "", None)
    /\ task_categories' = << >>
    /\ current_play' = Some(play)
    /\ UNCHANGED <<current_task, stdout_buf, tty, started, fn_arg, fn_ret>>

v2_playbook_on_play_start(play) ==
    /\ Deliver(Event("play_start", play, FALSE, NoResult), "", None)
    /\ current_play' = Some(play)
    /\ UNCHANGED <<current_task, stdout_buf, tty, started>>

\* line 68: the early return for internal tasks
SkipsTask(task_name) == StartsWith(task_name, GatheringFacts) \/ task_name = ""

v2_playbook_on_task_start(task, is_conditional) ==
    LET skip == SkipsTask(task)
        category == IF skip THEN None ELSE categorize_task(task)
        text == IF skip \/ category.some THEN "" ELSE Placeholder(task)
    IN  /\ Deliver(Event("task_start", task, is_conditional, NoResult), text, category)
        /\ current_task' = Some(task)
        /\ started' = Some(task)
        /\ IF skip \/ category.some
           THEN UNCHANGED <<stdout_buf, tty>>
           ELSE WriteAndFlush(text)
        /\ UNCHANGED current_play

\* a variant that renders for every named task, fact gathering included
OkActiveAnyTask == Truthy(current_task)

\* line 85: the condition under which runner-ok renders
OkActive == Truthy(current_task) /\ ~StartsWith(current_task.val, GatheringFacts)

\* a variant whose line ends in the status symbol, another one when changed
RunnerOkTextByStatus(result) ==
    LET task_name == current_task.val
        changed == DictGet(result.changed, FALSE)
        status == IF changed THEN "~" ELSE OkGlyph
        line == IF categorize_task(task_name).some
                THEN CondensedOkLine(simplify_task_name(task_name))
                ELSE TopOkLine(task_name)
    IN  SubSeq(line, 1, Len(line) - 2) \o status \o "\n"

\* lines 86-106: the text runner-ok writes for the current task and a result
RunnerOkText(result) ==
    LET task_name == current_task.val
        changed == DictGet(result.changed, FALSE)
        status == IF changed THEN OkGlyph ELSE OkGlyph
    IN  IF categorize_task(task_name).some
        THEN CondensedOkLine(simplify_task_name(task_name))
        ELSE TopOkLine(task_name)

v2_runner_on_ok(result) ==
    LET category == IF OkActive THEN categorize_task(current_task.val) ELSE None
        text == IF OkActive THEN RunnerOkText(result) ELSE ""
    IN  /\ Deliver(Event("runner_ok", "", FALSE, result), text, category)
        /\ IF OkActive THEN WriteAndFlush(text) ELSE UNCHANGED <<stdout_buf, tty>>
        /\ UNCHANGED <<current_task, current_play, started>>

\* a variant that does not ask for a current task
FailedActiveWithoutTask(ignore_errors) == ~ignore_errors

\* line 111: the condition under which runner-failed renders
FailedActive(ignore_errors) == Truthy(current_task) /\ ~ignore_errors

v2_runner_on_failed(result, ignore_errors) ==
    LET text == IF FailedActive(ignore_errors)
                THEN FailedLine(current_task.val) \o ErrorLine(result)
                ELSE ""
    IN  /\ Deliver(Event("runner_failed", "", ignore_errors, result), text, None)
        /\ IF FailedActive(ignore_errors)
           THEN WriteAndFlush(text)
           ELSE UNCHANGED <<stdout_buf, tty>>
        /\ UNCHANGED <<current_task, current_play, started>>

\* a variant that forgets the current task once it is skipped
v2_runner_on_skipped_clears_task(result) ==
    /\ Deliver(Event("runner_skipped", "", FALSE, result), "", None)
    /\ current_task' = None
    /\ UNCHANGED <<current_play, stdout_buf, tty, started>>

v2_runner_on_skipped(result) ==
    /\ Deliver(Event("runner_skipped", "", FALSE, result), "", None)
    /\ UNCHANGED <<current_task, current_play, stdout_buf, tty, started>>

v2_playbook_on_stats ==
    /\ Deliver(Event("stats", "", FALSE, NoResult), "", None)
    /\ UNCHANGED <<current_task, current_play, stdout_buf, tty, started>>

\* a variant that passes the engine's message on to the terminal
display_prints(msg) ==
    /\ Deliver(Event("display", msg, FALSE, NoResult), msg \o "\n", None)
    /\ WriteAndFlush(msg \o "\n")
    /\ UNCHANGED <<current_task, current_play, started>>

display(msg) ==
    /\ Deliver(Event("display", msg, FALSE, NoResult), "", None)
    /\ UNCHANGED <<current_task, current_play, stdout_buf, tty, started>>

PlayStart == \E play \in PlayNames : v2_playbook_on_play_start(play)
TaskStart == \E task \in TaskNames : v2_playbook_on_task_start(task, FALSE)
RunnerOk == \E result \in OkResults : v2_runner_on_ok(result)
RunnerFailed ==
    \E result \in FailedResults, ignore_errors \in BOOLEAN :
        v2_runner_on_failed(result, ignore_errors)
RunnerSkipped == v2_runner_on_skipped(NoResult)
Stats == v2_playbook_on_stats
Display == display("TASK [setup]")

Next ==
    \/ PlayStart
    \/ TaskStart
    \/ RunnerOk
    \/ RunnerFailed
    \/ RunnerSkipped
    \/ Stats
    \/ Display

Spec == Init /\ [][Next]_vars

(***************************************************************************)
(* Direct calls of the helper methods                                      *)
(***************************************************************************)
InitFn ==
    /\ InitObject
    /\ fn_arg \in FnNames
    /\ fn_ret = NotCalled

CallCategorize ==
    /\ fn_ret = NotCalled
    /\ fn_ret' = [fn |-> "categorize", val |-> categorize_task(fn_arg)]
    /\ UNCHANGED <<current_task, current_play, task_categories, stdout_buf, tty,
                   last, prev, started, nevents, fn_arg>>

CallSimplify ==
    /\ fn_ret = NotCalled
    /\ fn_ret' = [fn |-> "simplify", val |-> Some(simplify_task_name(fn_arg))]
    /\ UNCHANGED <<current_task, current_play, task_categories, stdout_buf, tty,
                   last, prev, started, nevents, fn_arg>>

NextFn == CallCategorize \/ CallSimplify

SpecFn == InitFn /\ [][NextFn]_vars

(***************************************************************************)
(* The terminal: what is visible once the text that reached it is applied. *)
(* A carriage return moves the cursor to column 0 of the current line, a   *)
(* newline finishes the line, any other character overwrites the cell      *)
(* under the cursor and moves the cursor right.                            *)
(***************************************************************************)
\* the pieces of text between the occurrences of the character c
RECURSIVE SplitFrom(_, _, _)
SplitFrom(text, c, from) ==
    LET at == { i \in from..Len(text) : SubSeq(text, i, i) = c }
    IN  IF at = {} THEN << SubSeq(text, from, Len(text)) >>
        ELSE LET m == CHOOSE i \in at : \A k \in at : i <= k
             IN  << SubSeq(text, from, m - 1) >> \o SplitFrom(text, c, m + 1)

Split(text, c) == SplitFrom(text, c, 1)

\* writing over from column 0 of what the line shows: the cells beyond over stay
Overwrite(shown, over) == over \o SubSeq(shown, Len(over) + 1, Len(shown))

\* what one line shows after the pieces between its carriage returns are written
RECURSIVE ShowPieces(_, _, _)
ShowPieces(pieces, k, shown) ==
    IF k > Len(pieces) THEN shown
    ELSE ShowPieces(pieces, k + 1, Overwrite(shown, pieces[k]))

ShowLine(segment) == ShowPieces(Split(segment, "\r"), 1, "")

\* lines: the finished lines; cur: the line the cursor is on
Screen(text) ==
    LET segments == Split(text, "\n")
    IN  [lines |-> [k \in 1..(Len(segments) - 1) |-> ShowLine(segments[k])],
         cur |-> ShowLine(segments[Len(segments)])]

(***************************************************************************)
(* What the claims speak of, stated apart from the handlers                *)
(***************************************************************************)
Max(a, b) == IF a >= b THEN a ELSE b

FiftyDots == ".................................................."

\* k dots, 0 <= k <= 50
Dots(k) == SubSeq(FiftyDots, 1, k)

\* the positions <<i, j>> of the declared patterns whose text is a
\* case-insensitive substring of the name
MatchingPatterns(n) ==
    { ij \in (1..Len(InitialTaskCategories)) \X (1..10) :
        /\ ij[2] <= Len(InitialTaskCategories[ij[1]].patterns)
        /\ Contains(Lower(InitialTaskCategories[ij[1]].patterns[ij[2]]), Lower(n)) }

IsFactGathering(n) == StartsWith(n, "Gathering Facts")

\* a top-level line as it is meant to be seen, without its newline
TopLine(n, glyph) ==
    "   += " \o n \o " " \o Dots(Max(50 - Len(n), 0)) \o " " \o glyph

\* C1: task-start(N) then runner-ok for a non-empty, non-fact-gathering N that
\* matches no pattern, from an empty terminal line, leaves exactly one more
\* finished line on the terminal, prefix N space max(50 - len(N), 0) dots space
\* check mark, and nothing of the placeholder besides it.
C1_StartThenOk ==
    /\ last.ev.kind = "runner_ok"
    /\ prev.ev.kind = "task_start"
    /\ prev.ev.name # ""
    /\ ~IsFactGathering(prev.ev.name)
    /\ MatchingPatterns(prev.ev.name) = {}
    /\ Screen(prev.tty_before).cur = ""

C1_OneRenderedLine ==
    C1_StartThenOk =>
        /\ Screen(tty).lines =
               Append(Screen(prev.tty_before).lines, TopLine(prev.ev.name, "#"))
        /\ Screen(tty).cur = ""

C1_Witness ==
    /\ C1_StartThenOk
    /\ Len(prev.ev.name) > 50
    /\ prev.tty_before # ""

\* C2: a task that is started and then only skipped leaves no character on the
\* terminal, neither a placeholder nor a completed line, whatever its name.
C2_SkippedLeavesNothing ==
    (last.ev.kind = "runner_skipped" /\ prev.ev.kind = "task_start")
        => tty = prev.tty_before

\* C3 as claimed: while the latest task-start carried an empty or a
\* fact-gathering name, no handler writes anything.
Suppressed == started.some /\ (started.val = "" \/ IsFactGathering(started.val))

C3_AllOutputSuppressed == Suppressed => (last.wrote = "" /\ tty = last.tty_before)

\* C3 as amended: while the latest task-start carried an empty or a
\* fact-gathering name, task-start, runner-ok, runner-skipped and runner-failed
\* with ignoreErrors true write nothing; runner-failed with ignoreErrors false
\* writes nothing for the empty name and the two-line failure block for a
\* fact-gathering name.
C3_FailureStillReported ==
    /\ last.ev.kind = "runner_failed"
    /\ ~last.ev.ignore_errors
    /\ IsFactGathering(started.val)

C3_SuppressedExceptFailure ==
    Suppressed =>
        IF C3_FailureStillReported
        THEN /\ Len(Screen(last.wrote).lines) = 2
             /\ Screen(last.wrote).lines[1] = TopLine(started.val, "!")
             /\ tty = last.tty_before \o last.wrote
        ELSE last.wrote = "" /\ tty = last.tty_before

C3_Witness ==
    /\ Suppressed
    /\ IsFactGathering(started.val)
    /\ last.ev.kind = "runner_ok"
    /\ prev.ev.kind = "task_start"

\* C4: runner-failed with ignoreErrors true writes nothing; with ignoreErrors
\* false and a current task T it writes exactly the failure line of T (full
\* name, max(50 - len(T), 0) dots, ballot x) and the error line with the
\* result's message, or with "Unknown error" when the result has none,
\* categorized or not.
C4_FailureBlock ==
    last.ev.kind = "runner_failed" =>
        IF last.ev.ignore_errors
        THEN last.wrote = "" /\ tty = last.tty_before
        ELSE (last.task_before.some /\ last.task_before.val # "") =>
                /\ last.wrote =
                       "\r" \o TopLine(last.task_before.val, "!") \o "\n"
                       \o "   |  %= Error: "
                       \o (IF last.ev.result.msg.some
                           THEN last.ev.result.msg.val ELSE "Unknown error")
                       \o "\n"
                /\ tty = last.tty_before \o last.wrote

C4_Witness ==
    /\ last.ev.kind = "runner_failed"
    /\ ~last.ev.ignore_errors
    /\ ~last.ev.result.msg.some
    /\ last.task_before.some
    /\ MatchingPatterns(last.task_before.val) # {}
    /\ last.wrote # ""

\* C5: categorize returns the category of the first declared pattern, in the
\* order System Configuration, Development Tools, Final Setup and in the order
\* of the patterns within each, whose text is a case-insensitive substring of
\* the name; of several matching categories the earliest declared one.
DeclaredOrder == << "System Configuration", "Development Tools", "Final Setup" >>

FirstMatch(n) ==
    CHOOSE ij \in MatchingPatterns(n) :
        \A kl \in MatchingPatterns(n) :
            ij[1] < kl[1] \/ (ij[1] = kl[1] /\ ij[2] <= kl[2])

C5_FirstDeclaredCategory ==
    (fn_ret.fn = "categorize" /\ MatchingPatterns(fn_arg) # {}) =>
        /\ fn_ret.val.some
        /\ fn_ret.val.val = DeclaredOrder[FirstMatch(fn_arg)[1]]

C5_Witness ==
    /\ fn_ret.fn = "categorize"
    /\ \E ij, kl \in MatchingPatterns(fn_arg) : ij[1] = 1 /\ kl[1] = 3
    /\ fn_ret.val.val = "System Configuration"

\* C6: categorize returns none if and only if no declared pattern's text is a
\* case-insensitive substring of the name.
C6_NoneIffNoPattern ==
    fn_ret.fn = "categorize" =>
        (~fn_ret.val.some <=> MatchingPatterns(fn_arg) = {})

C6_Witness ==
    /\ fn_ret.fn = "categorize"
    /\ ~fn_ret.val.some
    /\ fn_arg = "Change default shell"

\* C7: every rendered line holds max(W - L, 0) dots, L the length of the name
\* it displays (the simplified name on a condensed line, the full task name on
\* a top-level success or failure line), W = 35 for condensed and 50 for
\* top-level lines; none for L >= W.
RenderedLine == last.ev.kind \in {"runner_ok", "runner_failed"} /\ last.wrote # ""

IsCondensed == last.ev.kind = "runner_ok" /\ last.category.some

DisplayedName ==
    IF IsCondensed THEN simplify_task_name(last.task_before.val)
    ELSE last.task_before.val

\* where the dots begin: after the carriage return, the prefix, the name and a space
DotsStart == 1 + (IF IsCondensed THEN 9 ELSE 6) + Len(DisplayedName) + 1 + 1

\* the number of dots written from DotsStart on
DotCount ==
    LET ends == { e \in (DotsStart - 1)..Len(last.wrote) :
                    /\ \A i \in DotsStart..e : SubSeq(last.wrote, i, i) = "."
                    /\ e < Len(last.wrote) => SubSeq(last.wrote, e + 1, e + 1) # "." }
    IN  (CHOOSE e \in ends : TRUE) - (DotsStart - 1)

C7_DotFill ==
    RenderedLine =>
        LET W == IF IsCondensed THEN 35 ELSE 50
            L == Len(DisplayedName)
        IN  /\ SubSeq(last.wrote, DotsStart - 1 - L, DotsStart - 2) = DisplayedName
            /\ DotCount = Max(W - L, 0)
            /\ L >= W => DotCount = 0
            /\ SubSeq(last.wrote, DotsStart + DotCount, DotsStart + DotCount + 2)
                   \in {" #\n", " !\n"}

C7_Witness ==
    /\ RenderedLine
    /\ IsCondensed
    /\ Len(DisplayedName) > 35
    /\ DotCount = 0

\* C8 as claimed: simplify(x) is "Global packages (5)" for every x that
\* contains "global npm packages", whatever else x contains.
C8_GlobalAlways ==
    (fn_ret.fn = "simplify" /\ Contains("global npm packages", fn_arg))
        => fn_ret.val.val = "Global packages (5)"

\* C8 as amended: simplify(x) is "Global packages (5)" for every x that
\* contains "global npm packages" and not "base system packages"; an x that
\* contains both yields "Base packages (25)", that trigger being tested first.
C8_GlobalUnlessBase ==
    (fn_ret.fn = "simplify" /\ Contains("global npm packages", fn_arg)) =>
        fn_ret.val.val = IF Contains("base system packages", fn_arg)
                         THEN "Base packages (25)"
                         ELSE "Global packages (5)"

C8_Witness ==
    /\ fn_ret.fn = "simplify"
    /\ fn_arg = "Update global npm packages and set hostname"
    /\ fn_ret.val.val = "Global packages (5)"

\* C9: when no override trigger applies, simplify cuts off exactly the one
\* known prefix the name starts with, keeping a second prefix the cut exposes
\* ("Install Set x" gives "Set x", "Install NVM" gives "NVM"), and returns a
\* name that starts with no known prefix unchanged.
KnownPrefixes ==
    { "Install ", "Set ", "Update ", "Enable ", "Generate ", "Download ", "Change " }

OverrideTriggers ==
    { "base system packages", "global npm packages", "additional APT packages" }

NoTrigger(n) == \A t \in OverrideTriggers : ~Contains(t, n)

C9_OnePrefixRemoved ==
    (fn_ret.fn = "simplify" /\ NoTrigger(fn_arg)) =>
        /\ \A q \in KnownPrefixes :
              StartsWith(fn_arg, q) => q \o fn_ret.val.val = fn_arg
        /\ (\A q \in KnownPrefixes : ~StartsWith(fn_arg, q))
              => fn_ret.val.val = fn_arg
        /\ fn_arg = "Install Set x" => fn_ret.val.val = "Set x"
        /\ fn_arg = "Install NVM" => fn_ret.val.val = "NVM"

C9_Witness ==
    /\ fn_ret.fn = "simplify"
    /\ fn_arg = "Install Set x"
    /\ fn_ret.val.val = "Set x"

\* C10: currentTask is the name carried by the most recent task-start, empty
\* and fact-gathering names included, and is unset before the first
\* task-start; no other event changes it.
C10_CurrentTaskIsLatestStart ==
    /\ current_task = started
    /\ nevents = 0 => current_task = None
    /\ nevents > 0 =>
          IF last.ev.kind = "task_start"
          THEN current_task = Some(last.ev.name)
          ELSE current_task = last.task_before

C10_Witness ==
    /\ prev.ev.kind = "task_start"
    /\ prev.ev.name = "Gathering Facts"
    /\ last.ev.kind = "runner_skipped"
    /\ current_task = Some("Gathering Facts")

\* C11: what runner-ok writes, and the state it leaves, do not depend on the
\* result's changed flag: true, false and missing give the same text, ending
\* in the same check mark.
C11_ChangedIsIgnored ==
    last.ev.kind = "runner_ok" =>
        /\ tty = last.tty_before \o last.wrote
        /\ current_task = last.task_before
        /\ OkActive =>
              \A result \in OkResults :
                  /\ RunnerOkText(result) = last.wrote
                  /\ SubSeq(RunnerOkText(result), Len(last.wrote) - 2, Len(last.wrote))
                         = " #\n"

C11_Witness ==
    /\ last.ev.kind = "runner_ok"
    /\ last.ev.result.changed = Some(TRUE)
    /\ OkActive
    /\ last.wrote = RunnerOkText([changed |-> NoBool, msg |-> None])

\* C12: every write is flushed before its handler returns: no text stays in
\* the output buffer, and what a handler wrote is on the terminal, the
\* placeholder of task-start included, before any later write.
C12_NothingUnflushed ==
    /\ stdout_buf = ""
    /\ nevents > 0 => tty = last.tty_before \o last.wrote

C12_Witness ==
    /\ last.ev.kind = "runner_ok"
    /\ prev.ev.kind = "task_start"
    /\ prev.wrote # ""
    /\ SubSeq(last.wrote, 1, 1) = "\r"
    /\ last.tty_before = prev.tty_before \o prev.wrote
    /\ stdout_buf = ""

\* C13 as claimed: task-start of a task whose name matches a pattern writes
\* nothing, and the runner-ok that follows writes exactly the condensed line:
\* its prefix, the simplified name, a space, max(35 - len, 0) dots, a space,
\* the check mark and a newline.
C13_StartThenOk ==
    /\ last.ev.kind = "runner_ok"
    /\ prev.ev.kind = "task_start"
    /\ prev.ev.name # ""
    /\ ~IsFactGathering(prev.ev.name)
    /\ MatchingPatterns(prev.ev.name) # {}

CondensedLine(n) ==
    "   |  += " \o n \o " " \o Dots(Max(35 - Len(n), 0)) \o " #"

C13_OnlyCondensedLine ==
    C13_StartThenOk =>
        /\ prev.wrote = ""
        /\ last.wrote = CondensedLine(simplify_task_name(prev.ev.name)) \o "\n"

\* C13 as amended: task-start of such a task writes nothing, and the runner-ok
\* that follows writes a carriage return and then exactly the condensed line
\* and a newline.
C13_ReturnThenCondensedLine ==
    C13_StartThenOk =>
        /\ prev.wrote = ""
        /\ tty = prev.tty_before \o last.wrote
        /\ last.wrote = "\r" \o CondensedLine(simplify_task_name(prev.ev.name)) \o "\n"

C13_Witness ==
    /\ C13_StartThenOk
    /\ Len(simplify_task_name(prev.ev.name)) > 35
    /\ SubSeq(last.wrote, 1, 1) = "\r"

\* C14: runner-skipped, stats and display write nothing and leave currentPlay,
\* currentTask and the category table as they are; play-start writes nothing
\* and changes nothing but currentPlay.
C14_NoOps ==
    [][ /\ last'.ev.kind \in {"runner_skipped", "stats", "display"} =>
              UNCHANGED <<current_task, current_play, task_categories, stdout_buf, tty>>
        /\ last'.ev.kind = "play_start" =>
              /\ UNCHANGED <<current_task, task_categories, stdout_buf, tty>>
              /\ current_play' = Some(last'.ev.name) ]_vars

C14_Witness ==
    /\ last.ev.kind = "display"
    /\ prev.ev.kind = "task_start"
    /\ prev.wrote # ""
    /\ tty = prev.tty_before \o prev.wrote
    /\ current_task = Some(prev.ev.name)

\* C15: simplify returns what a reference returns that tests the triggers
\* "base system packages", "global npm packages" and "additional APT packages"
\* on the original name instead of on the name left by the prefix cut: the cut
\* neither hides nor creates a trigger match.
CutKnownPrefix(n) ==
    IF \E q \in KnownPrefixes : StartsWith(n, q)
    THEN LET q == CHOOSE q \in KnownPrefixes : StartsWith(n, q)
         IN  SubSeq(n, Len(q) + 1, Len(n))
    ELSE n

SimplifyOnOriginal(n) ==
    IF Contains("base system packages", n) THEN "Base packages (25)"
    ELSE IF Contains("global npm packages", n) THEN "Global packages (5)"
    ELSE IF Contains("additional APT packages", n) THEN "Additional packages"
    ELSE CutKnownPrefix(n)

C15_TriggersOnOriginalName ==
    fn_ret.fn = "simplify" =>
        /\ fn_ret.val.val = SimplifyOnOriginal(fn_arg)
        /\ \A t \in OverrideTriggers :
              Contains(t, fn_arg) <=> Contains(t, CutKnownPrefix(fn_arg))

C15_Witness ==
    /\ fn_ret.fn = "simplify"
    /\ fn_arg = "Install additional APT packages and set hostname"
    /\ fn_ret.val.val = "Additional packages"

\* C16: with no current task, before the first task-start and after a
\* task-start with an empty name, runner-ok and runner-failed, whatever
\* ignoreErrors and the result, write nothing and change no state.
C16_IgnoredWithoutTask ==
    [][ ( /\ last'.ev.kind \in {"runner_ok", "runner_failed"}
          /\ (current_task = None \/ current_task = Some("")) )
        => UNCHANGED <<current_task, current_play, task_categories, stdout_buf, tty>>
      ]_vars

C16_Witness ==
    /\ last.ev.kind = "runner_failed"
    /\ ~last.ev.ignore_errors
    /\ last.ev.result.msg.some
    /\ prev.ev.kind = "task_start"
    /\ prev.ev.name = ""
    /\ prev.tty_before # ""
    /\ tty = prev.tty_before

\* C17: the category table is never modified, and the lookup at runner-ok
\* agrees with the one at the task-start of the current task: runner-ok takes
\* the uncategorized, overwriting branch if and only if that task-start wrote
\* a placeholder.
TookOverwriteBranch ==
    /\ last.ev.kind = "runner_ok"
    /\ last.wrote # ""
    /\ ~last.category.some

C17_BranchesAgree ==
    /\ task_categories = InitialTaskCategories
    /\ last.ev.kind = "runner_ok" => (TookOverwriteBranch <=> last.placeholder # "")
    /\ (last.ev.kind = "runner_ok" /\ last.category.some) => last.placeholder = ""

C17_Witness ==
    /\ TookOverwriteBranch
    /\ prev.ev.kind = "runner_skipped"
    /\ last.placeholder = "   += " \o current_task.val \o " "

\* C18: categorize returns what a matcher returns that only tests whether the
\* literal text of each declared pattern is a case-insensitive substring of
\* the name; no declared pattern starts and ends with ".*", and
\* "Change.*shell" matches only names that contain that very text.
LiteralCategorize(n) ==
    IF MatchingPatterns(n) = {} THEN None
    ELSE Some(DeclaredOrder[FirstMatch(n)[1]])

DeclaredPatterns ==
    UNION { { task_categories[i].patterns[j] :
                j \in 1..Len(task_categories[i].patterns) } :
            i \in 1..Len(task_categories) }

C18_WildcardsAreLiteral ==
    fn_ret.fn = "categorize" =>
        /\ fn_ret.val = LiteralCategorize(fn_arg)
        /\ \A q \in DeclaredPatterns : ~(StartsWith(q, ".*") /\ EndsWith(q, ".*"))
        /\ PatternMatches("Change.*shell", fn_arg)
               <=> Contains("change.*shell", Lower(fn_arg))

C18_Witness ==
    /\ fn_ret.fn = "categorize"
    /\ fn_arg = "Change default shell with global npm packages"
    /\ fn_ret.val = None
    /\ PatternMatchesWildcard("Change.*shell", fn_arg)

\* C19: after any sequence of task-start, runner-ok, runner-failed and
\* runner-skipped, every finished line the terminal shows is exactly one
\* condensed success line, one top-level success line, one failure line or one
\* error line, with nothing left of an earlier placeholder.
FinishedLines ==
    { TopLine(n, "#") : n \in TaskNames \ {""} }
    \cup { TopLine(n, "!") : n \in TaskNames \ {""} }
    \cup { CondensedLine(simplify_task_name(n)) : n \in TaskNames \ {""} }
    \cup { "   |  %= Error: " \o m : m \in {"Unknown error", "E: held packages"} }

C19_OnlyFinishedLines ==
    \A k \in 1..Len(Screen(tty).lines) : Screen(tty).lines[k] \in FinishedLines

\* C20: the text runner-ok (uncategorized branch) and an unignored
\* runner-failed write after the carriage return begins with the placeholder
\* of the current task, prefix, name and a space, and is strictly longer than
\* it, also when the name has 50 characters or more and no dot is written.
WroteCompletion ==
    \/ TookOverwriteBranch
    \/ last.ev.kind = "runner_failed" /\ last.wrote # ""

CompletionLine == Split(SubSeq(last.wrote, 2, Len(last.wrote)), "\n")[1]

C20_CompletionCoversPlaceholder ==
    WroteCompletion =>
        LET placeholder == "   += " \o last.task_before.val \o " "
        IN  /\ SubSeq(last.wrote, 1, 1) = "\r"
            /\ StartsWith(CompletionLine, placeholder)
            /\ Len(CompletionLine) > Len(placeholder)
            /\ last.placeholder # "" => last.placeholder = placeholder

C20_Witness ==
    /\ TookOverwriteBranch
    /\ Len(last.task_before.val) > 50
    /\ last.placeholder # ""
    /\ Len(CompletionLine) = Len(last.placeholder) + 2

====
